---- MODULE Spec2Model ----
(***************************************************************************)
(* The prefab save pipeline of crates/prefab/src/save.rs: the SaveState    *)
(* machine, the OnEnter(SaveState::Save) chain                             *)
(*   prepare_children -> apply_deferred -> serialize_scene                 *)
(*                    -> delete_prepared_children                          *)
(* the EditorRegistry allow-list, the three save destinations and the      *)
(* background file write spawned on the IoTaskPool.                        *)
(***************************************************************************)
EXTENDS Integers, Sequences, FiniteSets, TLC

(* ------------------------------ bounds --------------------------------- *)

\* Entities of the live world.
MaxEntities == 3

\* Save requests made in one behaviour.
MaxSaves == 2

\* Tokens a file may hold before the first write.
MaxOldLen == 3

\* Entities a ChildrenPrefab of a loaded scene may list.
MaxListLen == 2

\* Entities an EntityMapper may reserve.
MaxReserved == 2

\* Changes the environment makes to the registry or the configuration
\* between two saves.
MaxChanges == 1

Entities == 1 .. MaxEntities

(* --------------------------- component types --------------------------- *)

\* Components an entity may carry besides Children and ChildrenPrefab.
\* "Opaque" stands for a reflected component whose value the type registry
\* cannot encode.
Archetypes ==
    << {},
       {"PrefabMarker"},
       {"PrefabMarker", "Name"},
       {"PrefabMarker", "SceneAutoChild"},
       {"PrefabMarker", "Opaque"} >>

\* Types the editor registry may hold.
RegTypes == {"ChildrenPrefab", "PrefabMarker", "Name", "Opaque"}

\* The order in which a DynamicEntity lists its components.
TypeOrder == <<"PrefabMarker", "Name", "Opaque", "ChildrenPrefab">>

TypePath(t) ==
    CASE t = "PrefabMarker"   -> "space_shared::PrefabMarker"
      [] t = "Name"           -> "bevy_core::name::Name"
      [] t = "ChildrenPrefab" -> "space_prefab::save::ChildrenPrefab"
      [] OTHER                -> "Opaque"

NameOf(e) == IF e % 2 = 1 THEN "my_name" ELSE "name"

PrefabFile == "test.ron"

Paths == {PrefabFile}

NoPath == [kind |-> "None", path |-> ""]

MemoryCache == [kind |-> "MemoryCache", path |-> ""]

File(p) == [kind |-> "File", path |-> p]

EditorPrefabPaths == {NoPath, MemoryCache} \cup {File(p) : p \in Paths}

NoRecord == [some |-> FALSE, list |-> <<>>]

\* The identifiers an EntityMapper may meet: those of the entities, and those
\* it reserves, which stand for no living entity.
AllIds == 1 .. (MaxEntities + MaxReserved)

\* No identifier is mapped (0: no entry) and none was reserved.
NoMapper == [map |-> [x \in AllIds |-> 0], generations |-> 0]

(* ------------------------------- state --------------------------------- *)

VARIABLES
    components,     \* entity -> set of component types it carries
    children,       \* entity -> its Children, in order (<<>>: no Children)
    prefab,         \* entity -> its ChildrenPrefab (NoRecord: none)
    registry,       \* EditorRegistry: the registered component types
    config,         \* SaveConfig.path
    state,          \* State<SaveState>
    next_state,     \* NextState<SaveState>: "None", "Save" or "Idle"
    pc,             \* the system of the OnEnter(Save) chain to run next
    commands,       \* the deferred command queue of the running schedule
    scene,          \* the DynamicScene built by the last serialize_scene
    assets,         \* Assets<DynamicScene>: handle i is assets[i]
    cache,          \* PrefabMemoryCache.scene: a handle, 0 for None
    files,          \* path -> the file's existence and content
    tasks,          \* detached IoTaskPool tasks not yet run
    log,            \* warn!/error! lines of serialize_scene, oldest first
    io_log,         \* error!/info! lines of the background tasks
    toasts,         \* ToastMessage events sent, oldest first
    saves,          \* save requests made so far
    changes,        \* environment changes since the last save request
    entity_mapper   \* the EntityMapper of a scene that is being loaded

vars ==
    << components, children, prefab, registry, config, state, next_state, pc,
       commands, scene, assets, cache, files, tasks, log, io_log, toasts, saves,
       changes, entity_mapper >>

worldVars == << components, children, prefab >>

(* ------------------------------ helpers -------------------------------- *)

Range(s) == { s[i] : i \in DOMAIN s }

\* The sequences over S without repetition, of length at most n.
InjSeqs(S, n) ==
    { s \in UNION { [1 .. k -> S] : k \in 0 .. n } :
        \A i, j \in DOMAIN s : s[i] = s[j] => i = j }

\* The elements of a set of integers in ascending order.
RECURSIVE SortedSeq(_)
SortedSeq(S) ==
    IF S = {} THEN <<>>
    ELSE LET m == CHOOSE x \in S : \A y \in S : x <= y
         IN <<m>> \o SortedSeq(S \ {m})

RECURSIVE Flatten(_)
Flatten(ss) ==
    IF ss = <<>> THEN <<>> ELSE Head(ss) \o Flatten(Tail(ss))

(* ------------------------------ queries -------------------------------- *)

\* The capture query without its Without<SceneAutoChild> filter.
prepare_query_WithMarkerOnly ==
    { e \in Entities : "PrefabMarker" \in components[e] /\ children[e] # <<>> }

\* Query<(Entity, &Children), (With<PrefabMarker>, Without<SceneAutoChild>)>:
\* an entity carries Children only while it has at least one child.
prepare_query ==
    { e \in Entities :
        /\ "PrefabMarker" \in components[e]
        /\ "SceneAutoChild" \notin components[e]
        /\ children[e] # <<>> }

\* The root query without its Without<SceneAutoChild> filter.
prefab_query_WithMarkerOnly ==
    { e \in Entities : "PrefabMarker" \in components[e] }

\* query_filtered::<Entity, (With<PrefabMarker>, Without<SceneAutoChild>)>
prefab_query ==
    { e \in Entities :
        /\ "PrefabMarker" \in components[e]
        /\ "SceneAutoChild" \notin components[e] }

\* Query<Entity, With<ChildrenPrefab>>
delete_query == { e \in Entities : prefab[e].some }

(* ---------------------------- ChildrenPrefab --------------------------- *)

\* The children listed in the order of their identifiers.
from_children_Sorted(ch) == [some |-> TRUE, list |-> SortedSeq(Range(ch))]

\* ChildrenPrefab::from_children: children.to_vec()
from_children(ch) == [some |-> TRUE, list |-> ch]

\* A mapper that reserves an identifier and does not remember it.
get_or_reserve_Forgets(m, x) ==
    IF m.map[x] # 0
    THEN [entity |-> m.map[x], mapper |-> m]
    ELSE [entity |-> MaxEntities + 1 + m.generations,
          mapper |-> [m EXCEPT !.generations = @ + 1]]

\* entity_mapper.get_or_reserve(*e): the entity x is mapped to, and the
\* mapper afterwards. An identifier without an entry gets one that stands
\* for no living entity (the next generation of the mapper's dead entity),
\* and the entry is kept.
get_or_reserve(m, x) ==
    IF m.map[x] # 0
    THEN [entity |-> m.map[x], mapper |-> m]
    ELSE LET new == MaxEntities + 1 + m.generations
         IN [entity |-> new,
             mapper |-> [map |-> [m.map EXCEPT ![x] = new],
                         generations |-> m.generations + 1]]

\* self.0.iter().map(|e| entity_mapper.get_or_reserve(*e)).collect():
\* the mapped list, and the mapper after the last element.
RECURSIVE MapList(_, _)
MapList(l, m) ==
    IF l = <<>>
    THEN [list |-> <<>>, mapper |-> m]
    ELSE LET first == get_or_reserve(m, Head(l))
             rest  == MapList(Tail(l), first.mapper)
         IN [list |-> <<first.entity>> \o rest.list, mapper |-> rest.mapper]

\* A remove command that leaves the record in place.
ApplyCommand_KeepsRecord(p, c) ==
    IF c.op = "insert" THEN [p EXCEPT ![c.entity] = c.value] ELSE p

\* One deferred command applied to the ChildrenPrefab column of the world.
ApplyCommand(p, c) ==
    IF c.op = "insert"
    THEN [p EXCEPT ![c.entity] = c.value]
    ELSE [p EXCEPT ![c.entity] = NoRecord]

RECURSIVE ApplyCommands(_, _)
ApplyCommands(p, cs) ==
    IF cs = <<>> THEN p
    ELSE ApplyCommands(ApplyCommand(p, Head(cs)), Tail(cs))

InsertCommands(es) ==
    [ i \in DOMAIN es |->
        [op |-> "insert", entity |-> es[i],
         value |-> from_children(children[es[i]])] ]

RemoveCommands(es) ==
    [ i \in DOMAIN es |->
        [op |-> "remove", entity |-> es[i], value |-> NoRecord] ]

(* ------------------------- extraction, encoding ------------------------ *)

\* The allow-list as it was when the plugin was built.
allow_types_AtBuild == {"ChildrenPrefab"}

\* allow_types: the type ids registered in the EditorRegistry right now.
allow_types == registry

HasComponent(e, t) ==
    IF t = "ChildrenPrefab" THEN prefab[e].some ELSE t \in components[e]

ComponentValue(e, t) ==
    CASE t = "PrefabMarker"   -> "()"
      [] t = "Name"           -> NameOf(e)
      [] t = "ChildrenPrefab" -> ToString(prefab[e].list)
      [] OTHER                -> "opaque"

\* SceneFilter::Allowlist: a component is copied iff its type is allowed.
AllowedTypesOf(e, allow) ==
    SelectSeq(TypeOrder, LAMBDA t : HasComponent(e, t) /\ t \in allow)

ExtractEntity(e, allow) ==
    LET ts == AllowedTypesOf(e, allow)
    IN [ entity |-> e,
         components |->
            [ i \in DOMAIN ts |->
                [type |-> ts[i], value |-> ComponentValue(e, ts[i])] ] ]

\* An extraction that walks from each entity to its children.
BuildScene_WalksChildren(es, allow) ==
    LET order == SortedSeq(es \cup UNION { Range(children[e]) : e \in es })
    IN [ i \in DOMAIN order |-> ExtractEntity(order[i], allow) ]

\* DynamicSceneBuilder::extract_entities(..).build(): one DynamicEntity per
\* extracted entity, ordered by entity.
BuildScene(es, allow) ==
    LET order == SortedSeq(es)
    IN [ i \in DOMAIN order |-> ExtractEntity(order[i], allow) ]

\* The component types that occur in a scene.
SceneTypes(sc) ==
    UNION { { c.type : c \in Range(sc[i].components) } : i \in DOMAIN sc }

SceneEntities(sc) == { sc[i].entity : i \in DOMAIN sc }

\* Types whose values the AppTypeRegistry cannot serialize.
Unencodable == {"Opaque"}

\* A component rendered without the name of its type.
ComponentTokens_ValueOnly(c) == <<c.value>>

\* One component of the text: its type path, then its value.
ComponentTokens(c) == <<TypePath(c.type), c.value>>

EntityTokens(de) ==
    <<ToString(de.entity)>> \o
    Flatten([ i \in DOMAIN de.components |-> ComponentTokens(de.components[i]) ])

\* The RON text of a scene, as the sequence of its tokens.
SceneText(sc) ==
    <<"(">> \o Flatten([ i \in DOMAIN sc |-> EntityTokens(sc[i]) ]) \o <<")">>

\* DynamicScene::serialize_ron: Err when a component value cannot be encoded.
serialize_ron(sc) ==
    IF SceneTypes(sc) \cap Unencodable # {}
    THEN [ ok |-> FALSE, str |-> <<>>,
           err |-> TypePath(CHOOSE t \in SceneTypes(sc) \cap Unencodable : TRUE) ]
    ELSE [ ok |-> TRUE, str |-> SceneText(sc), err |-> "" ]

(* ---------------------------- notifications ---------------------------- *)

\* The crate is built with its "editor" feature: toasts are sent.
FeatureEditor == TRUE

EmptySceneWarning == [level |-> "warn", text |-> "Saving empty scene", detail |-> ""]

SerializeError(e) ==
    [level |-> "error", text |-> "failed to serialize prefab", detail |-> e]

\* The lines of a background task, each with the task that wrote it.
WriteError(t) ==
    [level |-> "error", text |-> "Error while writing scene to file",
     detail |-> t.path, task |-> t.id]

SavedInfo(t) ==
    [level |-> "info", text |-> "Saved prefab to file",
     detail |-> t.path, task |-> t.id]

\* What serialize_scene emits: the warning for an empty root set, then the
\* error of a failed encoding.
SerializeMessages(entities, res) ==
    (IF entities = {} THEN <<EmptySceneWarning>> ELSE <<>>) \o
    (IF res.ok THEN <<>> ELSE <<SerializeError(res.err)>>)

(* ------------------------------- files --------------------------------- *)

Absent == [exists |-> FALSE, content |-> <<>>]

OldContent == [exists |-> TRUE, content |-> [i \in 1 .. MaxOldLen |-> "old"]]

\* OpenOptions::new().create(true).append(false).write(true), then
\* file.write(bytes): the bytes replace the file's content from offset 0 on,
\* and what the file held beyond them stays.
WriteFile(f, str) ==
    [ exists |-> TRUE,
      content |-> str \o SubSeq(f.content, Len(str) + 1, Len(f.content)) ]

\* open() succeeded (the file exists from now on) and write() failed.
OpenedOnly(f) == [exists |-> TRUE, content |-> f.content]

(* ------------------------------- worlds -------------------------------- *)

Parents(ch, e) == { p \in Entities : e \in Range(ch[p]) }

RECURSIVE Descendants(_, _, _)
Descendants(ch, e, n) ==
    IF n = 0 THEN {}
    ELSE Range(ch[e]) \cup
         UNION { Descendants(ch, c, n - 1) : c \in Range(ch[e]) }

\* The parent/child relation of a world: every entity has at most one parent
\* and is not its own descendant.
IsHierarchy(ch) ==
    /\ \A e \in Entities : Cardinality(Parents(ch, e)) <= 1
    /\ \A e \in Entities : e \notin Descendants(ch, e, MaxEntities)

Hierarchies ==
    { ch \in [Entities -> InjSeqs(Entities, MaxEntities - 1)] : IsHierarchy(ch) }

\* The component sets of the entities. The program treats entities alike, so
\* worlds are taken up to a renaming of their entities: the entities are
\* numbered in the order of their archetypes, and the hierarchy is free.
ComponentAssignments ==
    { [e \in Entities |-> Archetypes[a[e]]] :
        a \in { b \in [Entities -> DOMAIN Archetypes] :
                  \A e \in Entities : e < MaxEntities => b[e] <= b[e + 1] } }

(* -------------------------------- Init --------------------------------- *)

\* The registries an app is built with: SaveResourcesPrefabPlugin registers
\* ChildrenPrefab, and the app may go on to register Name and PrefabMarker,
\* and a type that cannot be encoded.
InitialRegistries ==
    { {"ChildrenPrefab"},
      {"ChildrenPrefab", "Name", "PrefabMarker"},
      {"ChildrenPrefab", "Name", "PrefabMarker", "Opaque"} }

\* The app after its plugins are built, its resources inserted and its
\* startup systems run: SaveState is Idle, no ChildrenPrefab is attached, and
\* a file that no save is configured to write is left out of the picture.
Init ==
    /\ components \in ComponentAssignments
    /\ children \in Hierarchies
    /\ prefab = [e \in Entities |-> NoRecord]
    /\ registry \in InitialRegistries
    /\ config \in EditorPrefabPaths
    /\ state = "Idle"
    /\ next_state = "None"
    /\ pc = "none"
    /\ commands = <<>>
    /\ scene = <<>>
    /\ assets = <<>>
    /\ cache = 0
    /\ files \in [Paths -> {Absent, OldContent}]
    /\ \A p \in Paths : config # File(p) => files[p] = Absent
    /\ tasks = {}
    /\ log = <<>>
    /\ io_log = {}
    /\ toasts = <<>>
    /\ saves = 0
    /\ changes = 0
    /\ entity_mapper = NoMapper

(* --------------------------- the environment --------------------------- *)

Quiet == pc = "none" /\ state = "Idle" /\ next_state = "None"

\* The environment changes the registry or the configuration between two
\* saves, a bounded number of times.
BetweenSaves == Quiet /\ 0 < saves /\ saves < MaxSaves /\ changes < MaxChanges

\* The trigger layer asks for a save; it does so only while the phase is Idle.
RequestSave ==
    /\ Quiet
    /\ saves < MaxSaves
    /\ next_state' = "Save"
    /\ saves' = saves + 1
    /\ changes' = 0
    /\ UNCHANGED entity_mapper
    /\ UNCHANGED << worldVars, registry, config, state, pc, commands, scene,
                    assets, cache, files, tasks, log, io_log, toasts >>

\* The editor sets the destination of the next save.
SetConfig(p) ==
    /\ BetweenSaves
    /\ config # p
    /\ config' = p
    /\ changes' = changes + 1
    /\ UNCHANGED entity_mapper
    /\ UNCHANGED << worldVars, registry, state, next_state, pc, commands, scene,
                    assets, cache, files, tasks, log, io_log, toasts, saves >>

\* app.editor_registry::<T>()
Register(t) ==
    /\ BetweenSaves
    /\ t \notin registry
    /\ registry' = registry \cup {t}
    /\ changes' = changes + 1
    /\ UNCHANGED entity_mapper
    /\ UNCHANGED << worldVars, config, state, next_state, pc, commands, scene,
                    assets, cache, files, tasks, log, io_log, toasts, saves >>

\* A type is taken out of the editor registry.
Unregister(t) ==
    /\ BetweenSaves
    /\ t \in registry
    /\ registry' = registry \ {t}
    /\ changes' = changes + 1
    /\ UNCHANGED entity_mapper
    /\ UNCHANGED << worldVars, config, state, next_state, pc, commands, scene,
                    assets, cache, files, tasks, log, io_log, toasts, saves >>

(* -------------------------- the state machine -------------------------- *)

\* apply_state_transition::<SaveState>, run once per frame: takes the queued
\* state and, when it differs from the current one, enters it; entering Save
\* runs the OnEnter(SaveState::Save) schedule.
\* A queued state is entered even when it is the current one.
StateChanges_Always(current, entered) == TRUE

\* if *state_resource != entered: the transition schedules run only when the
\* queued state differs from the current one.
StateChanges(current, entered) == current # entered

ApplyStateTransition ==
    /\ pc = "none"
    /\ next_state # "None"
    /\ next_state' = "None"
    /\ IF StateChanges(state, next_state)
       THEN /\ state' = next_state
            /\ pc' = IF next_state = "Save" THEN "prepare_children" ELSE "none"
       ELSE UNCHANGED << state, pc >>
    /\ UNCHANGED entity_mapper
    /\ UNCHANGED << worldVars, registry, config, commands, scene, assets, cache,
                    files, tasks, log, io_log, toasts, saves, changes >>

(* ----------------------- the OnEnter(Save) chain ----------------------- *)

\* A chain without the flush between capture and extraction.
AfterPrepare_NoBarrier == "serialize_scene"

\* (prepare_children, apply_deferred, serialize_scene, ..).chain(): the
\* system that runs after prepare_children.
AfterPrepare == "apply_deferred"

prepare_children ==
    /\ pc = "prepare_children"
    /\ commands' = commands \o InsertCommands(SortedSeq(prepare_query))
    /\ pc' = AfterPrepare
    /\ UNCHANGED entity_mapper
    /\ UNCHANGED << worldVars, registry, config, state, next_state, scene,
                    assets, cache, files, tasks, log, io_log, toasts, saves, changes >>

\* The apply_deferred of the chain: prepare_children's commands take effect.
apply_deferred ==
    /\ pc = "apply_deferred"
    /\ prefab' = ApplyCommands(prefab, commands)
    /\ commands' = <<>>
    /\ pc' = "serialize_scene"
    /\ UNCHANGED entity_mapper
    /\ UNCHANGED << components, children, registry, config, state, next_state,
                    scene, assets, cache, files, tasks, log, io_log, toasts, saves, changes >>

\* The scene is sent to the destination whatever the encoding returned.
Delivers_Always(entities, res) == TRUE

\* The scene of an empty root set is not sent to the destination.
Delivers_UnlessEmpty(entities, res) == res.ok /\ entities # {}

\* if let Ok(str) = res: the encoded scene goes to the destination only
\* when the encoding succeeded.
Delivers(entities, res) == res.ok

\* serialize_scene returns without asking for a state.
RequestedState_Never(res) == "None"

\* serialize_scene asks for Idle only after a successful encoding.
RequestedState_OnlyOnSuccess(res) == IF res.ok THEN "Idle" ELSE "None"

\* The state serialize_scene asks for before it returns.
RequestedState(res) == "Idle"

\* The task serialize_scene spawns for a File destination: the closure holds
\* the path and the text; the save that spawned it and the allow-list of that
\* save are kept with it for reference.
WriteTask(path, str) ==
    [id |-> saves, path |-> path, str |-> str, allow |-> registry]

\* A File destination whose scene is put into the cache slot as well.
ReplacesCache_AnyPath(deliver, path) == deliver /\ path.kind # "None"

\* match path: the arm EditorPrefabPath::MemoryCache.
ReplacesCache(deliver, path) == deliver /\ path.kind = "MemoryCache"

\* match path: the arm EditorPrefabPath::File.
SchedulesWrite(deliver, path) == deliver /\ path.kind = "File"

\* The slot keeps the handle of the first scene that was stored.
NewHandle_First(store) == 1

\* Assets::add: the handle of the asset that was just added.
NewHandle(store) == Len(store) + 1

\* An extraction that moves the records out of the world.
WorldAfterExtraction_TakesRecords(p) == [e \in Entities |-> NoRecord]

\* DynamicSceneBuilder::from_world(world) borrows the world immutably and
\* extract_entities copies the values: the records stay where they are.
WorldAfterExtraction(p) == p

serialize_scene ==
    /\ pc = "serialize_scene"
    /\ \E entities \in {prefab_query} :
       \E sc \in {BuildScene(entities, allow_types)} :
       \E res \in {serialize_ron(sc)} :
       \E msgs \in {SerializeMessages(entities, res)} :
       \E deliver \in {Delivers(entities, res)} :
          /\ scene' = sc
          /\ log' = log \o msgs
          /\ toasts' = IF FeatureEditor THEN toasts \o msgs ELSE toasts
          /\ tasks' = IF SchedulesWrite(deliver, config)
                      THEN tasks \cup {WriteTask(config.path, res.str)}
                      ELSE tasks
          /\ assets' = IF ReplacesCache(deliver, config)
                       THEN Append(assets, sc)
                       ELSE assets
          /\ cache' = IF ReplacesCache(deliver, config)
                      THEN NewHandle(assets)
                      ELSE cache
          /\ next_state' = IF RequestedState(res) = "None"
                           THEN next_state
                           ELSE RequestedState(res)
    /\ prefab' = WorldAfterExtraction(prefab)
    /\ pc' = "delete_prepared_children"
    /\ UNCHANGED entity_mapper
    /\ UNCHANGED << components, children, registry, config, state, commands,
                    files, io_log, saves, changes >>

delete_prepared_children ==
    /\ pc = "delete_prepared_children"
    /\ commands' = commands \o RemoveCommands(SortedSeq(delete_query))
    /\ pc' = "final_apply_deferred"
    /\ UNCHANGED entity_mapper
    /\ UNCHANGED << worldVars, registry, config, state, next_state, scene,
                    assets, cache, files, tasks, log, io_log, toasts, saves, changes >>

\* The deferred commands left when the schedule ends are applied.
final_apply_deferred ==
    /\ pc = "final_apply_deferred"
    /\ prefab' = ApplyCommands(prefab, commands)
    /\ commands' = <<>>
    /\ pc' = "none"
    /\ UNCHANGED entity_mapper
    /\ UNCHANGED << components, children, registry, config, state, next_state,
                    scene, assets, cache, files, tasks, log, io_log, toasts, saves, changes >>

(* ----------------------- the background file write --------------------- *)

WriteOutcomes == {"ok", "open_failed", "write_failed"}

\* A failed write that goes on to the info! line.
TaskReport_AlwaysSaved(t, outcome) ==
    IF outcome = "ok" THEN {SavedInfo(t)} ELSE {WriteError(t), SavedInfo(t)}

\* inspect_err(error!) and expect: a failure logs the error and ends the
\* task there; only a task that got past expect logs "Saved prefab to file".
TaskReport(t, outcome) ==
    IF outcome = "ok" THEN {SavedInfo(t)} ELSE {WriteError(t)}

\* A pool that runs its tasks in the order in which they were spawned.
Runnable_InSpawnOrder(t) == t \in tasks /\ \A u \in tasks : t.id <= u.id

\* spawn(..).detach(): a spawned task runs whenever a thread of the pool
\* picks it, whatever else is pending.
Runnable(t) == t \in tasks

\* One detached IoTaskPool task runs: open, write, report.
RunWriteTask(t, outcome) ==
    /\ Runnable(t)
    /\ tasks' = tasks \ {t}
    /\ files' =
          CASE outcome = "ok"           -> [files EXCEPT ![t.path] = WriteFile(@, t.str)]
            [] outcome = "write_failed" -> [files EXCEPT ![t.path] = OpenedOnly(@)]
            [] OTHER                    -> files
    /\ io_log' = io_log \cup TaskReport(t, outcome)
    /\ UNCHANGED entity_mapper
    /\ UNCHANGED << worldVars, registry, config, state, next_state, pc, commands,
                    scene, assets, cache, log, toasts, saves, changes >>

(* ---------------------------- specification ---------------------------- *)

Schedule ==
    \/ prepare_children
    \/ apply_deferred
    \/ serialize_scene
    \/ delete_prepared_children
    \/ final_apply_deferred

IoTaskPool == \E t \in tasks, outcome \in WriteOutcomes : RunWriteTask(t, outcome)

Environment ==
    \/ RequestSave
    \/ \E p \in EditorPrefabPaths : SetConfig(p)
    \/ \E t \in RegTypes : Register(t)
    \/ \E t \in RegTypes : Unregister(t)

Next == Environment \/ ApplyStateTransition \/ Schedule \/ IoTaskPool

Spec == Init /\ [][Next]_vars

\* The frame loop keeps running apply_state_transition, a schedule that has
\* started runs to its end, and the IoTaskPool runs every task it was given.
Fairness ==
    /\ WF_vars(ApplyStateTransition)
    /\ WF_vars(Schedule)
    /\ WF_vars(IoTaskPool)

\* The worlds of the fair specification: at most one parent, with one child.
FairInit ==
    /\ Init
    /\ Cardinality({ e \in Entities : children[e] # <<>> }) <= 1
    /\ \A e \in Entities : Len(children[e]) <= 1

FairSpec == FairInit /\ [][Next]_vars /\ Fairness

(* ------------------- requests made at any time ------------------------ *)

\* A trigger layer that does not wait for Idle: a system of some frame sets
\* NextState to Save whatever the phase is and whatever is queued. The
\* OnEnter(Save) chain runs inside one state transition, so a request falls
\* between two runs of apply_state_transition.
RequestSaveAnytime ==
    /\ pc = "none"
    /\ saves < MaxSaves
    /\ next_state' = "Save"
    /\ saves' = saves + 1
    /\ changes' = 0
    /\ UNCHANGED entity_mapper
    /\ UNCHANGED << worldVars, registry, config, state, pc, commands, scene,
                    assets, cache, files, tasks, log, io_log, toasts >>

OpenNext == RequestSaveAnytime \/ ApplyStateTransition \/ Schedule \/ IoTaskPool

OpenSpec == Init /\ [][OpenNext]_vars

(* ------------------------ loading: map_entities ------------------------ *)

\* The ChildrenPrefab records a scene may bring: lists of entities, in which
\* an entity may occur more than once.
LoadedRecords ==
    { [some |-> TRUE, list |-> l] :
        l \in UNION { [1 .. k -> Entities] : k \in 0 .. MaxListLen } }

\* The mappers a load may start from: some entities of the scene have their
\* entity of the world already, and nothing was reserved.
InitialMappers ==
    { [map |-> [x \in AllIds |-> IF x \in Entities THEN f[x] ELSE 0],
       generations |-> 0] :
        f \in [Entities -> Entities \cup {0}] }

\* A world into which a scene was just spawned, before its entity references
\* are mapped: the first two entities may carry a ChildrenPrefab.
MapInit ==
    /\ components = [e \in Entities |-> {"PrefabMarker"}]
    /\ children = [e \in Entities |-> <<>>]
    /\ prefab \in { p \in [Entities -> LoadedRecords \cup {NoRecord}] :
                       \A e \in Entities : e > 2 => p[e] = NoRecord }
    /\ registry = {"ChildrenPrefab"}
    /\ config = NoPath
    /\ state = "Idle"
    /\ next_state = "None"
    /\ pc = "none"
    /\ commands = <<>>
    /\ scene = <<>>
    /\ assets = <<>>
    /\ cache = 0
    /\ files = [p \in Paths |-> Absent]
    /\ tasks = {}
    /\ log = <<>>
    /\ io_log = {}
    /\ toasts = <<>>
    /\ saves = 0
    /\ changes = 0
    /\ entity_mapper \in InitialMappers

\* ChildrenPrefab::map_entities on the record of the entity e.
map_entities(e) ==
    /\ prefab[e].some
    /\ \E r \in {MapList(prefab[e].list, entity_mapper)} :
          /\ r.mapper.generations <= MaxReserved
          /\ prefab' = [prefab EXCEPT ![e].list = r.list]
          /\ entity_mapper' = r.mapper
    /\ UNCHANGED << components, children, registry, config, state, next_state,
                    pc, commands, scene, assets, cache, files, tasks, log,
                    io_log, toasts, saves, changes >>

MapNext == \E e \in Entities : map_entities(e)

MapSpec == MapInit /\ [][MapNext]_vars

(* -------------------------------- claims ------------------------------- *)

\* The entities that carry PrefabMarker and do not carry SceneAutoChild.
SaveRoots ==
    { e \in Entities :
        "PrefabMarker" \in components[e] /\ "SceneAutoChild" \notin components[e] }

\* The encoding of the scene built by the last serialize_scene succeeded.
EncodedOk == serialize_ron(scene).ok

\* serialize_scene has just returned.
JustSerialized == pc = "delete_prepared_children"

\* The step of serialize_scene.
SerializeStep == pc = "serialize_scene" /\ pc' = "delete_prepared_children"

\* C1: every time the save phase is Save it later becomes Idle, on every
\* path of serialize_scene (empty root set, encoding success with any
\* destination, encoding failure).
C1_SaveReturnsToIdle == (state = "Save") ~> (state = "Idle")

\* A save whose encoding failed has run its chain and waits for the next
\* frame with Idle requested.
C1_Witness ==
    /\ state = "Save"
    /\ pc = "none"
    /\ next_state = "Idle"
    /\ ~EncodedOk

\* C2: whenever no save chain is running, no entity carries a ChildrenPrefab:
\* each save cycle, successful or failed, removes every record it attached,
\* and so does every later cycle on the same world.
C2_NoChildrenPrefabAfterCycle ==
    pc = "none" => \A e \in Entities : ~prefab[e].some

\* The second cycle on a world has ended, its encoding failed, and a root
\* with children had received a record in it.
C2_Witness ==
    /\ pc = "none"
    /\ saves >= 2
    /\ state = "Save"
    /\ ~EncodedOk
    /\ \E e \in SaveRoots : children[e] # <<>>

\* C3: right after a serialize_scene with destination MemoryCache whose
\* encoding succeeded, the cache slot holds a scene with as many entities as
\* the world has entities with PrefabMarker and without SceneAutoChild.
C3_CachedSceneCountsRoots ==
    (JustSerialized /\ config = MemoryCache /\ EncodedOk)
        => /\ cache # 0
           /\ Len(assets[cache]) = Cardinality(SaveRoots)

\* Two roots and one entity excluded by SceneAutoChild: the cached scene has
\* two entities.
C3_Witness ==
    /\ JustSerialized
    /\ config = MemoryCache
    /\ EncodedOk
    /\ cache # 0
    /\ Len(assets[cache]) = 2
    /\ \E e \in Entities : "SceneAutoChild" \in components[e]

\* C4: when the encoding fails, serialize_scene leaves the cache slot and the
\* asset store as they were, spawns no write task and touches no file, emits
\* exactly one error (one log line, one toast) that carries the cause, and
\* asks for Idle; the phase then becomes Idle.
C4_FailureDeliversNothing ==
    /\ [][ (SerializeStep /\ ~serialize_ron(scene').ok) =>
              /\ cache' = cache
              /\ assets' = assets
              /\ tasks' = tasks
              /\ files' = files
              /\ \E cause \in { TypePath(t) : t \in Unencodable } :
                    /\ log' = Append(log, SerializeError(cause))
                    /\ toasts' = Append(toasts, SerializeError(cause))
              /\ next_state' = "Idle" ]_vars
    /\ (JustSerialized /\ ~EncodedOk) ~> (state = "Idle")

\* An encoding failed while the cache slot held the scene of an earlier save.
C4_Witness == JustSerialized /\ ~EncodedOk /\ cache # 0 /\ config = MemoryCache

\* Every component type an entity of the model may carry.
AllTypes == RegTypes \cup {"SceneAutoChild"}

TypesOf(de) == { c.type : c \in Range(de.components) }

\* C5: in the scene serialize_scene has just built, an entity holds a
\* component of a type if and only if the world entity carries one and the
\* type is in the EditorRegistry as it is during this save; so a type
\* registered or unregistered since the previous save is in or out at once.
C5_SceneHoldsExactlyAllowedTypes ==
    JustSerialized =>
        \A i \in DOMAIN scene : \A t \in AllTypes :
            t \in TypesOf(scene[i])
                <=> (t \in registry /\ HasComponent(scene[i].entity, t))

\* Name was registered between two saves to the cache: the first scene has an
\* entity that carries Name and no Name component, the second has the Name.
C5_Witness ==
    /\ JustSerialized
    /\ cache = 2
    /\ "Name" \in SceneTypes(assets[2])
    /\ "Name" \notin SceneTypes(assets[1])
    /\ \E e \in SceneEntities(assets[1]) : "Name" \in components[e]

\* C6: an entity that carries SceneAutoChild never has a ChildrenPrefab, is
\* never the target of a queued command, and is in no scene, also when it
\* carries PrefabMarker and has children.
C6_AutoChildNeverRoot ==
    \A e \in Entities :
        "SceneAutoChild" \in components[e] =>
            /\ ~prefab[e].some
            /\ \A i \in DOMAIN commands : commands[i].entity # e
            /\ e \notin SceneEntities(scene)
            /\ \A h \in DOMAIN assets : e \notin SceneEntities(assets[h])

\* A save has captured and extracted a world in which an entity with
\* PrefabMarker, SceneAutoChild and a child stands beside a root with a record.
C6_Witness ==
    /\ JustSerialized
    /\ \E e \in Entities :
          /\ {"PrefabMarker", "SceneAutoChild"} \subseteq components[e]
          /\ children[e] # <<>>
    /\ \E r \in SaveRoots : prefab[r].some

\* C7: after prepare_children and the flush, a save root with children
\* carries a ChildrenPrefab equal to its child list (same order, same
\* length), and a save root without children carries none.
C7_RecordEqualsChildren ==
    pc = "serialize_scene" =>
        \A e \in SaveRoots :
            IF children[e] # <<>>
            THEN prefab[e].some /\ prefab[e].list = children[e]
            ELSE ~prefab[e].some

\* A root whose two children are not in the order of their identifiers, and
\* a root without children.
C7_Witness ==
    /\ pc = "serialize_scene"
    /\ \E e \in SaveRoots :
          /\ Len(children[e]) = 2
          /\ children[e][1] > children[e][2]
          /\ prefab[e].list = children[e]
    /\ \E r \in SaveRoots : children[r] = <<>>

\* The messages the step adds to the log.
NewMessages == SubSeq(log', Len(log) + 1, Len(log'))

\* C8: with no save root serialize_scene emits the "Saving empty scene"
\* warning and nothing else, still sends the scene to the configured
\* destination (the cache then holds a scene without entities, a File
\* destination gets its write task) and asks for Idle, and the phase becomes
\* Idle; with a save root it emits no such warning.
C8_EmptySceneStillSaves ==
    /\ [][ SerializeStep =>
              /\ (EmptySceneWarning \in Range(NewMessages)) <=> (SaveRoots = {})
              /\ SaveRoots = {} =>
                    /\ log' = Append(log, EmptySceneWarning)
                    /\ toasts' = Append(toasts, EmptySceneWarning)
                    /\ config = MemoryCache =>
                          /\ cache' = Len(assets) + 1
                          /\ assets' = Append(assets, <<>>)
                    /\ config.kind = "File" =>
                          \E t \in tasks' \ tasks :
                              t.path = config.path /\ t.id = saves
                    /\ next_state' = "Idle" ]_vars
    /\ (JustSerialized /\ SaveRoots = {}) ~> (state = "Idle")

\* A world without save roots was saved to the cache.
C8_Witness ==
    /\ JustSerialized
    /\ SaveRoots = {}
    /\ config = MemoryCache
    /\ cache # 0
    /\ assets[cache] = <<>>
    /\ log # <<>>

\* The step in which the task t runs and reports success.
WrittenOk(t) == t \in tasks /\ t \notin tasks' /\ SavedInfo(t) \in io_log'

\* C9: after a background write that reports success the file holds exactly
\* the text of that save, whatever it held before.
C9_FileIsExactlyTheText ==
    [][ \A t \in tasks :
            WrittenOk(t) => files'[t.path] = [exists |-> TRUE, content |-> t.str]
      ]_vars

\* What a save root carries when serialize_scene extracts it: its own
\* components, and a ChildrenPrefab when it has children.
CarriedAtSave(e, ty) ==
    IF ty = "ChildrenPrefab" THEN children[e] # <<>> ELSE ty \in components[e]

ValueAtSave(e, ty) ==
    CASE ty = "PrefabMarker"   -> "()"
      [] ty = "Name"           -> NameOf(e)
      [] ty = "ChildrenPrefab" -> ToString(children[e])
      [] OTHER                 -> "opaque"

NewTasks == tasks' \ tasks

\* C11: a serialize_scene whose encoding succeeded delivers to the configured
\* destination and to nothing else: with no path it schedules no write and
\* leaves the cache slot alone; with File(path) it schedules exactly one write,
\* of this save's text to that path, and leaves the cache slot alone; with
\* MemoryCache it puts a new handle to this save's scene into the slot and
\* schedules no write. No file is touched by the step itself.
C11_DeliversToConfiguredDestination ==
    [][ (SerializeStep /\ serialize_ron(scene').ok) =>
           /\ files' = files
           /\ tasks \subseteq tasks'
           /\ config = NoPath =>
                 /\ NewTasks = {}
                 /\ cache' = cache
                 /\ assets' = assets
           /\ config.kind = "File" =>
                 /\ Cardinality(NewTasks) = 1
                 /\ \A t \in NewTasks :
                       t.path = config.path /\ t.str = SceneText(scene')
                 /\ cache' = cache
                 /\ assets' = assets
           /\ config = MemoryCache =>
                 /\ NewTasks = {}
                 /\ cache' # cache
                 /\ cache' = Len(assets')
                 /\ assets' = Append(assets, scene') ]_vars

\* The second save goes to a file while the slot holds the scene of the
\* first, and the write of a first save to the file could be pending too.
C11_Witness ==
    /\ JustSerialized
    /\ EncodedOk
    /\ saves = 2
    /\ config = File(PrefabFile)
    /\ cache = 1
    /\ \E t \in tasks : t.id = 2 /\ t.path = PrefabFile

\* The step in which the task t runs and reports a failure.
FailedWrite(t) == t \in tasks /\ t \notin tasks' /\ WriteError(t) \in io_log'

\* C12: a write task that fails to open or to write its file logs the error
\* and no "Saved prefab to file" line, is gone afterwards (no retry), leaves
\* the file's content as it was and a file that open() created in place (no
\* rollback), and changes neither the save phase, the chain, the world nor
\* any resource; the host goes on: a phase that is Save still becomes Idle.
C12_WriteFailureIsConfined ==
    /\ [][ \A t \in tasks :
              FailedWrite(t) =>
                 /\ SavedInfo(t) \notin io_log'
                 /\ io_log' = io_log \cup {WriteError(t)}
                 /\ tasks' = tasks \ {t}
                 /\ files'[t.path].content = files[t.path].content
                 /\ files[t.path].exists => files'[t.path].exists
                 /\ \A p \in Paths \ {t.path} : files'[p] = files[p]
                 /\ UNCHANGED << state, next_state, pc, commands >>
                 /\ UNCHANGED worldVars
                 /\ UNCHANGED << registry, config, scene, assets, cache, log,
                                 toasts >> ]_vars
    /\ ((\E r \in io_log : r.level = "error") /\ state = "Save")
          ~> (state = "Idle")

\* The write of the first save failed after open() had created the file, and
\* the write of a second save then succeeded.
C12_Witness ==
    /\ \E r \in io_log : r.level = "error" /\ r.task = 1
    /\ \A r \in io_log : r.task = 1 => r.level = "error"
    /\ \E r \in io_log : r.level = "info" /\ r.task = 2
    /\ files[PrefabFile].exists
    /\ state = "Idle"
    /\ tasks = {}

\* The list of e before and after the step.
OldList(e) == prefab[e].list

NewList(e) == prefab'[e].list

\* C13: map_entities replaces every element of a ChildrenPrefab by the image
\* the mapper has for it afterwards, keeping the length and the order of the
\* list; an entry the mapper had is used as it is, equal identifiers get
\* equal images, and an identifier without an entry gets a reserved one that
\* belongs to no entity, different from the one any other identifier gets.
C13_MapEntitiesRemapsEveryElement ==
    [][ \A e \in Entities :
           (prefab[e].some /\ prefab'[e] # prefab[e]) =>
              /\ prefab'[e].some
              /\ Len(NewList(e)) = Len(OldList(e))
              /\ \A i \in DOMAIN OldList(e) :
                    /\ NewList(e)[i] # 0
                    /\ NewList(e)[i] = entity_mapper'.map[OldList(e)[i]]
                    /\ entity_mapper.map[OldList(e)[i]] # 0 =>
                          NewList(e)[i] = entity_mapper.map[OldList(e)[i]]
                    /\ entity_mapper.map[OldList(e)[i]] = 0 =>
                          NewList(e)[i] \notin Entities
              /\ \A i, j \in DOMAIN OldList(e) :
                    /\ OldList(e)[i] = OldList(e)[j] => NewList(e)[i] = NewList(e)[j]
                    /\ (/\ OldList(e)[i] # OldList(e)[j]
                        /\ entity_mapper.map[OldList(e)[i]] = 0)
                          => NewList(e)[i] # NewList(e)[j]
              /\ \A x \in AllIds :
                    entity_mapper.map[x] # 0 =>
                        entity_mapper'.map[x] = entity_mapper.map[x] ]_vars

\* Two records were mapped: one lists the same unmapped entity twice and now
\* holds its reserved identifier twice, the other holds that identifier too.
C13_Witness ==
    /\ entity_mapper.generations >= 1
    /\ Len(prefab[1].list) = 2
    /\ prefab[1].list[1] = prefab[1].list[2]
    /\ prefab[1].list[1] \notin Entities
    /\ prefab[2].some
    /\ prefab[1].list[1] \in Range(prefab[2].list)
    /\ \E x \in Entities : entity_mapper.map[x] = prefab[1].list[1]

\* The ChildrenPrefab components of an entity of a scene.
RecordsIn(de) == { c \in Range(de.components) : c.type = "ChildrenPrefab" }

\* C14: when serialize_scene is about to run, no command of prepare_children
\* is still queued and every save root with a child carries its record; and
\* in the scene it then builds, with ChildrenPrefab in the registry, every
\* such root has a ChildrenPrefab component that lists its children.
C14_ExtractionSeesCapturedRecords ==
    /\ pc = "serialize_scene" =>
          /\ commands = <<>>
          /\ \A e \in SaveRoots : children[e] # <<>> => prefab[e].some
    /\ (JustSerialized /\ "ChildrenPrefab" \in registry) =>
          \A e \in SaveRoots :
              children[e] # <<>> =>
                 \E i \in DOMAIN scene :
                    /\ scene[i].entity = e
                    /\ RecordsIn(scene[i]) =
                          {[type |-> "ChildrenPrefab",
                            value |-> ToString(children[e])]}

\* A root with two children was extracted and its scene entity holds the
\* record, in a cycle that had a root without children as well.
C14_Witness ==
    /\ JustSerialized
    /\ "ChildrenPrefab" \in registry
    /\ \E i \in DOMAIN scene :
          /\ Len(children[scene[i].entity]) = 2
          /\ RecordsIn(scene[i]) # {}
    /\ \E i \in DOMAIN scene : RecordsIn(scene[i]) = {}

\* The order in which the systems of one run follow each other.
ChainOrder ==
    { << "prepare_children", "apply_deferred" >>,
      << "apply_deferred", "serialize_scene" >>,
      << "serialize_scene", "delete_prepared_children" >>,
      << "delete_prepared_children", "final_apply_deferred" >>,
      << "final_apply_deferred", "none" >> }

\* C15: the chain runs only while the phase is Save; a run starts exactly in
\* the step that takes the phase from Idle to Save, with prepare_children,
\* and goes through its systems once, in order; the phase does not change
\* while a run is under way; so a request that arrives while the phase is
\* Save starts no run, and the next run starts from Idle.
C15_SingleFlight ==
    /\ [](pc # "none" => state = "Save")
    /\ [][ /\ (pc = "none" /\ pc' # "none") <=> (state = "Idle" /\ state' = "Save")
           /\ (pc = "none" /\ pc' # "none") => pc' = "prepare_children"
           /\ (pc # "none" /\ pc' # pc) => << pc, pc' >> \in ChainOrder
           /\ state' # state => pc = "none"
           /\ (state = "Save" /\ pc = "none") => pc' = "none" ]_vars

\* Two requests were made, the second while the phase was Save; it was taken
\* and dropped, and one run has stored one scene.
C15_Witness ==
    /\ saves = 2
    /\ state = "Save"
    /\ pc = "none"
    /\ next_state = "None"
    /\ config = MemoryCache
    /\ Len(assets) = 1
    /\ cache = 1

\* C16: nothing orders a pending write with the writes of other saves or
\* with the save phase: whatever else is pending and whatever the chain is
\* doing, each pending write may be the next one to run and to succeed. So
\* the write of an earlier save can land after the write of a later one.
C16_WritesAreNotOrdered ==
    \A t \in tasks : ENABLED RunWriteTask(t, "ok")

\* Name was unregistered between two saves to the same file; both writes
\* were pending at once, the later one ran first, and now that both have
\* reported success the file holds the text of the earlier save.
C16_Witness ==
    LET earlier == SceneText(BuildScene(SaveRoots, registry \cup {"Name"}))
        later   == SceneText(BuildScene(SaveRoots, registry))
    IN /\ saves = 2
       /\ tasks = {}
       /\ pc = "none"
       /\ \A id \in 1 .. 2 : \E r \in io_log : r.task = id /\ r.level = "info"
       /\ \A r \in io_log : r.level = "info"
       /\ "Name" \notin registry
       /\ earlier # later
       /\ files[PrefabFile].content = earlier

\* C17: as soon as a serialize_scene with destination MemoryCache and a
\* successful encoding has returned, the cache slot holds the handle of the
\* scene this save built (the DynamicScene, as stored in Assets); the slot
\* changes in no other step, and whenever it holds a handle it is the handle
\* of the scene stored last.
C17_CacheIsLastWriterWins ==
    /\ []((JustSerialized /\ config = MemoryCache /\ EncodedOk) =>
             /\ cache # 0
             /\ assets[cache] = scene)
    /\ [](cache # 0 => cache = Len(assets))
    /\ [][ cache' # cache =>
              /\ SerializeStep
              /\ config = MemoryCache
              /\ assets' = Append(assets, scene')
              /\ assets'[cache'] = scene' ]_vars

\* The second of two saves to the cache has just returned; its scene differs
\* from the first one, and the slot refers to it.
C17_Witness ==
    /\ JustSerialized
    /\ config = MemoryCache
    /\ EncodedOk
    /\ Len(assets) = 2
    /\ assets[1] # assets[2]
    /\ cache = 2
    /\ assets[cache] = scene

\* C18: serialize_scene leaves every entity's components, children and
\* ChildrenPrefab as they are, queues no command, and changes neither the
\* registry, the configuration, the phase nor any file: what it may change is
\* the cache slot and the asset store, the requested phase, the
\* notifications and the scheduled writes. No step changes the components or
\* the children of an entity, and a ChildrenPrefab changes only when the
\* commands of capture are applied (records are attached, to entities of the
\* capture query) and when those of cleanup are applied (records are removed).
C18_OnlyCaptureAndCleanupWrite ==
    [][ /\ SerializeStep =>
              /\ UNCHANGED worldVars
              /\ UNCHANGED << commands, registry, config, state, files, io_log >>
        /\ UNCHANGED << components, children >>
        /\ prefab' # prefab =>
              \/ /\ pc = "apply_deferred"
                 /\ \A e \in Entities :
                       prefab'[e] # prefab[e] =>
                          e \in prepare_query /\ prefab'[e].some
              \/ /\ pc = "final_apply_deferred"
                 /\ \A e \in Entities :
                       prefab'[e] # prefab[e] => prefab'[e] = NoRecord ]_vars

\* serialize_scene has scheduled a write and the record of a root with two
\* children, attached by capture, is still on the root.
C18_Witness ==
    /\ JustSerialized
    /\ EncodedOk
    /\ \E t \in tasks : t.id = saves
    /\ \E e \in SaveRoots :
          /\ Len(children[e]) = 2
          /\ prefab[e] = from_children(children[e])

\* The step in which the task t runs, whatever it reports.
Runs(t) == t \in tasks /\ t \notin tasks'

\* C19 as stated: when a write task runs, the phase of the save that
\* scheduled it is Idle again.
C19_WriteRunsInIdle ==
    [][ \A t \in tasks : (Runs(t) /\ t.id = saves) => state = "Idle" ]_vars

\* C19 amended: a write task runs only after the serialize_scene of its save
\* has scheduled it, possibly while the phase is still Save; whenever it
\* runs, the phase is Idle, or a chain is still running, or Idle has been
\* requested and waits for the next state transition; and the run changes
\* neither the phase nor the request nor the chain.
C19_WriteRunsOnceIdleIsDue ==
    [][ \A t \in tasks :
           Runs(t) =>
              /\ t.id <= saves
              /\ t.id = saves =>
                    pc \in {"delete_prepared_children", "final_apply_deferred", "none"}
              /\ state = "Idle" \/ pc # "none" \/ next_state = "Idle"
              /\ UNCHANGED << state, next_state, pc >> ]_vars

\* The write of the only save made so far has reported while the phase is
\* Save and the chain of that save has not ended.
C19_Witness ==
    /\ saves = 1
    /\ state = "Save"
    /\ pc = "delete_prepared_children"
    /\ tasks = {}
    /\ \E r \in io_log : r.task = 1

\* The entities that are listed in the record of a save root and are not
\* save roots themselves.
ListedNonRoots ==
    { c \in Entities \ SaveRoots :
        \E r \in SaveRoots : prefab[r].some /\ c \in Range(prefab[r].list) }

\* C20: the scene serialize_scene has just built has one entity for each save
\* root and no other: an entity that is not a save root is not in it, also
\* when the record of a root lists it as a child; the scene then holds the
\* child only inside the value of that root's ChildrenPrefab.
C20_SceneEntitiesAreTheRoots ==
    JustSerialized =>
        /\ SceneEntities(scene) = SaveRoots
        /\ Len(scene) = Cardinality(SaveRoots)
        /\ ListedNonRoots \cap SceneEntities(scene) = {}
        /\ \A i \in DOMAIN scene : \A c \in RecordsIn(scene[i]) :
              c.value = ToString(prefab[scene[i].entity].list)

\* A root lists a child without PrefabMarker and a child that carries
\* PrefabMarker and SceneAutoChild; the scene holds the record and only the
\* root.
C20_Witness ==
    /\ JustSerialized
    /\ Len(scene) = 1
    /\ RecordsIn(scene[1]) # {}
    /\ \E c, d \in ListedNonRoots :
          /\ components[c] = {}
          /\ "SceneAutoChild" \in components[d]
          /\ {c, d} \subseteq Range(prefab[scene[1].entity].list)

====
